---------------------------- MODULE Spec2Model ----------------------------
(***************************************************************************)
(* Model of saude_municipal_app/app.py: a Streamlit script that is re-run  *)
(* top to bottom on every user interaction.  One run loads the memoized    *)
(* synthetic dataset, reads the three sidebar widgets, filters the         *)
(* dataset, and computes the metrics, the size bucket ("porte") and the    *)
(* quartile cohorts that the page shows.                                   *)
(*                                                                         *)
(* Numbers.  The script works on float64 columns.  A float column is       *)
(* modelled in fixed point: the integer held is the value times Scale.     *)
(* A mean is kept exactly as the pair (sum, count), a quantile exactly in  *)
(* quarters of a fixed-point unit, and a ratio of means as an exact        *)
(* fraction; NaN and the infinities are explicit tagged values.            *)
(*                                                                         *)
(* Not modelled: the columns idh, densidade_demografica and municipio,     *)
(* which only feed the chart layer (hover text, the correlation heat map), *)
(* the chart calls themselves, and the numeric value of a Pearson          *)
(* correlation (only whether it is defined is represented).                *)
(***************************************************************************)
EXTENDS Integers, Sequences, FiniteSets, TLC

\* Number of municipalities generated (the script uses 200).
n_municipios == 2

\* Fixed-point scale of the float columns: value held = real value * Scale.
Scale == 100

\* The counter of generator-body executions saturates here.
MaxExecucoes == 2

VARIABLES
    prng,           \* the draws that np.random.seed(42) determines
    cache,          \* the st.cache_data entry of carregar_dados_completos
    execucoes,      \* how many times the generator body has run
    estado,         \* "inicial" before the first run, then "renderizado"
    df,             \* the dataset as the last run read it
    regioes,        \* multiselect value
    faixa_idosos,   \* slider value <<lo, hi>>, percent * Scale
    faixa_pib,      \* slider value <<lo, hi>>, R$
    df_filtrado,    \* the filtered frame (with the column porte added)
    limite_alto,    \* 0.75 quantile of percentual_idosos
    limite_baixo,   \* 0.25 quantile of percentual_idosos
    alto_idosos,    \* top cohort
    baixo_idosos,   \* bottom cohort
    metricas,       \* the values handed to st.metric / st.info
    textos          \* how each of them is formatted

vars == <<prng, cache, execucoes, estado, df, regioes, faixa_idosos,
          faixa_pib, df_filtrado, limite_alto, limite_baixo, alto_idosos,
          baixo_idosos, metricas, textos>>

---------------------------------------------------------------------------
(* float64 values *)

NaN == [tag |-> "nan"]
Inf(sinal) == [tag |-> "inf", sinal |-> sinal]
\* the real number num / den, den > 0
Num(num, den) == [tag |-> "num", num |-> num, den |-> den]

IsNaN(x) == x.tag = "nan"

Sinal(i) == IF i > 0 THEN 1 ELSE IF i < 0 THEN -1 ELSE 0

Abs(i) == IF i < 0 THEN -i ELSE i

RECURSIVE Soma(_)
Soma(xs) == IF xs = <<>> THEN 0 ELSE Head(xs) + Soma(Tail(xs))

Coluna(d, c) == [i \in 1..Len(d) |-> d[i][c]]


RECURSIVE Inserir(_, _)
Inserir(x, xs) ==
    IF xs = <<>> THEN <<x>>
    ELSE IF x <= Head(xs) THEN <<x>> \o xs
    ELSE <<Head(xs)>> \o Inserir(x, Tail(xs))

RECURSIVE Ordenar(_)
Ordenar(xs) == IF xs = <<>> THEN <<>> ELSE Inserir(Head(xs), Ordenar(Tail(xs)))

\* Media with an empty series read as 0 (a fillna(0) before the mean).
MediaVaziaZero(xs) == IF Len(xs) = 0 THEN Num(0, 1) ELSE Num(Soma(xs), Len(xs))

\* Series.mean(): NaN on an empty series, else sum / count.
Media(xs) == IF Len(xs) = 0 THEN NaN ELSE Num(Soma(xs), Len(xs))

\* float64 division a / b of two means (IEEE: x/0 is an infinity, 0/0 is NaN).
Dividir(a, b) ==
    IF IsNaN(a) \/ IsNaN(b) THEN NaN
    ELSE IF b.num = 0 THEN (IF a.num = 0 THEN NaN ELSE Inf(Sinal(a.num)))
    ELSE Num(a.num * b.den * Sinal(b.num), a.den * Abs(b.num))

Constante(xs) == \A i \in 1..Len(xs) : xs[i] = xs[1]

\* Series.corr(other), Pearson: NaN with fewer than two rows or a column of
\* zero variance, else a coefficient (whose value is not represented).
Corr(xs, ys) ==
    IF Len(xs) < 2 \/ Constante(xs) \/ Constante(ys) THEN NaN
    ELSE [tag |-> "r"]

\* Series.quantile(q) for q = q4/4, linear interpolation between the two
\* nearest order statistics; NaN on an empty series.
Quantil(xs, q4) ==
    IF Len(xs) = 0 THEN NaN
    ELSE LET v == Ordenar(xs)
             pos4 == q4 * (Len(xs) - 1)
             lo == (pos4 \div 4) + 1
             k == pos4 % 4
             hi == IF k = 0 THEN lo ELSE lo + 1
         IN  Num(4 * v[lo] + k * (v[hi] - v[lo]), 4)

\* x >= lim and x <= lim for a column value x; any comparison with NaN is False.
MaiorIgual(x, lim) == lim.tag = "num" /\ x * lim.den >= lim.num
MenorIgual(x, lim) == lim.tag = "num" /\ x * lim.den <= lim.num

\* f"{x:.1f}" and the like: the text of a float.
Formatar(x) ==
    IF x.tag = "nan" THEN "nan"
    ELSE IF x.tag = "inf" THEN (IF x.sinal > 0 THEN "inf" ELSE "-inf")
    ELSE "numero"

---------------------------------------------------------------------------
(* The generator *)

\* Samples of what the seeded generator can draw, one record per municipality:
\* populacao_total in randint(10000, 800000), populacao_60_mais in
\* randint(1000, 150000), pib_per_capita in uniform(8000, 45000), regiao one
\* of the five regions, and the three Gaussian noises (in real units).
SorteiosFiltro ==
    [populacao_total : {20000}, populacao_60_mais : {2000, 25000},
     pib_per_capita : {10000, 40000}, regiao : {"Norte", "Sul"},
     ruido_internacoes : {0}, ruido_procedimentos : {0}, ruido_gasto : {0}]

SorteiosCoorte ==
    [populacao_total : {100000}, populacao_60_mais : {5000, 10000, 25000},
     pib_per_capita : {10000}, regiao : {"Sudeste"},
     ruido_internacoes : {-20, 0}, ruido_procedimentos : {0},
     ruido_gasto : {0}]

SorteiosPorte ==
    {s \in [populacao_total : {20000, 20001, 50000, 100000, 100001,
                               500000, 500001},
            populacao_60_mais : {2000, 10000, 100000},
            pib_per_capita : {30000}, regiao : {"Nordeste"},
            ruido_internacoes : {10}, ruido_procedimentos : {-20},
            ruido_gasto : {0}] :
        /\ 5 * s.populacao_total <= 100 * s.populacao_60_mais
        /\ 100 * s.populacao_60_mais <= 25 * s.populacao_total}

Amostras == {SorteiosFiltro, SorteiosCoorte, SorteiosPorte}

\* dados['percentual_idosos'] = (populacao_60_mais / populacao_total) * 100
percentual_idosos(s) == (s.populacao_60_mais * 100 * Scale) \div s.populacao_total

internacoes_por_1000(s) ==
    percentual_idosos(s) * 2 + s.ruido_internacoes * Scale
        + (s.pib_per_capita * Scale) \div 1000

procedimentos_por_1000(s) ==
    (s.pib_per_capita * Scale) \div 200 + s.ruido_procedimentos * Scale
        + (percentual_idosos(s) * 3) \div 2

gasto_internacao_per_capita(s) ==
    internacoes_por_1000(s) * 50 + s.ruido_gasto * Scale

procedimentos_alta_complexidade(s) ==
    (s.pib_per_capita * Scale) \div 300 + percentual_idosos(s) * 2

\* The body of carregar_dados_completos: the frame built from the draws s.
carregar_dados_completos(s) ==
    [i \in 1..n_municipios |->
        [codigo_ibge |-> 100000 + i - 1,
         populacao_total |-> s[i].populacao_total,
         populacao_60_mais |-> s[i].populacao_60_mais,
         pib_per_capita |-> s[i].pib_per_capita * Scale,
         regiao |-> s[i].regiao,
         percentual_idosos |-> percentual_idosos(s[i]),
         internacoes_por_1000 |-> internacoes_por_1000(s[i]),
         procedimentos_por_1000 |-> procedimentos_por_1000(s[i]),
         gasto_internacao_per_capita |-> gasto_internacao_per_capita(s[i]),
         procedimentos_alta_complexidade |-> procedimentos_alta_complexidade(s[i])]]

\* CacheData without the memo: the body runs on every call.
CacheDataSemMemo(c, s) ==
    LET v == carregar_dados_completos(s)
    IN  [valor |-> v, cache |-> [hit |-> TRUE, valor |-> v], executou |-> 1]

\* @st.cache_data around a function of no arguments: the body runs on a miss
\* and its result is stored; a hit returns a copy of the stored frame.
CacheData(c, s) ==
    IF c.hit THEN [valor |-> c.valor, cache |-> c, executou |-> 0]
    ELSE LET v == carregar_dados_completos(s)
         IN  [valor |-> v, cache |-> [hit |-> TRUE, valor |-> v], executou |-> 1]

---------------------------------------------------------------------------
(* The filter and the analyses *)

Regioes(d) == {d[i].regiao : i \in 1..Len(d)}

\* Filtrar with the lower bounds exclusive (> for >=).
FiltrarExclusivo(d, reg, fi, fp) ==
    SelectSeq(d, LAMBDA r :
        /\ r.regiao \in reg
        /\ r.percentual_idosos > fi[1]
        /\ r.percentual_idosos <= fi[2]
        /\ r.pib_per_capita > fp[1] * Scale
        /\ r.pib_per_capita <= fp[2] * Scale)

\* Filtrar that also loses the first matching row (an .iloc[1:] slip).
FiltrarSemPrimeiro(d, reg, fi, fp) ==
    LET f == SelectSeq(d, LAMBDA r :
                /\ r.regiao \in reg
                /\ r.percentual_idosos >= fi[1]
                /\ r.percentual_idosos <= fi[2]
                /\ r.pib_per_capita >= fp[1] * Scale
                /\ r.pib_per_capita <= fp[2] * Scale)
    IN  IF f = <<>> THEN f ELSE Tail(f)

\* df[isin(regioes) & (pct >= lo) & (pct <= hi) & (pib >= lo) & (pib <= hi)]
Filtrar(d, reg, fi, fp) ==
    SelectSeq(d, LAMBDA r :
        /\ r.regiao \in reg
        /\ r.percentual_idosos >= fi[1]
        /\ r.percentual_idosos <= fi[2]
        /\ r.pib_per_capita >= fp[1] * Scale
        /\ r.pib_per_capita <= fp[2] * Scale)

\* Porte with right=False: intervals closed on the left, open on the right.
PorteEsquerda(p) ==
    LET bins == <<0, 20000, 100000, 500000>>
        labels == <<"Pequeno", "Medio", "Grande", "Metropole">>
        hit == {i \in 1..4 : bins[i] <= p /\ (i = 4 \/ p < bins[i + 1])}
    IN  IF hit = {} THEN "NaN" ELSE labels[CHOOSE i \in hit : TRUE]

\* pd.cut(x, bins=[0, 20000, 100000, 500000, inf], labels=[...]): intervals
\* open on the left and closed on the right; a value in no interval is NaN.
Porte(p) ==
    LET bins == <<0, 20000, 100000, 500000>>
        labels == <<"Pequeno", "Medio", "Grande", "Metropole">>
        hit == {i \in 1..4 : bins[i] < p /\ (i = 4 \/ p <= bins[i + 1])}
    IN  IF hit = {} THEN "NaN" ELSE labels[CHOOSE i \in hit : TRUE]

\* AtribuirPorte when df_filtrado is a view of df: the column lands in df too.
AtribuirPorteNaFonte(d, f) ==
    [df |-> [i \in 1..Len(d) |->
                d[i] @@ [porte |-> Porte(d[i].populacao_total)]],
     df_filtrado |-> [i \in 1..Len(f) |->
                        f[i] @@ [porte |-> Porte(f[i].populacao_total)]]]

\* df_filtrado['porte'] = pd.cut(...): df_filtrado is a frame of its own
\* (boolean indexing copies), so the column is added to it alone.
AtribuirPorte(d, f) ==
    [df |-> d,
     df_filtrado |-> [i \in 1..Len(f) |->
                        f[i] @@ [porte |-> Porte(f[i].populacao_total)]]]

\* AltoIdosos with a strict comparison (> for >=).
AltoIdososEstrito(f, lim) ==
    SelectSeq(f, LAMBDA r :
        lim.tag = "num" /\ r.percentual_idosos * lim.den > lim.num)

AltoIdosos(f, lim) ==
    SelectSeq(f, LAMBDA r : MaiorIgual(r.percentual_idosos, lim))

BaixoIdosos(f, lim) ==
    SelectSeq(f, LAMBDA r : MenorIgual(r.percentual_idosos, lim))

Indicadores(g) ==
    [internacoes |-> Media(Coluna(g, "internacoes_por_1000")),
     procedimentos |-> Media(Coluna(g, "procedimentos_por_1000")),
     gasto |-> Media(Coluna(g, "gasto_internacao_per_capita"))]

\* The values shown by st.metric (lines 157-181, 213-214) and by the insight
\* box (lines 408-428), computed over the filtered frame f of the dataset d.
Metricas(d, f, alto, baixo) ==
    [municipios |-> Len(f),
     delta |-> IF Len(f) # Len(d) THEN <<Len(f) - Len(d)>> ELSE <<>>,
     populacao_media |-> Media(Coluna(f, "populacao_total")),
     percentual_idosos_medio |-> Media(Coluna(f, "percentual_idosos")),
     pib_medio |-> Media(Coluna(f, "pib_per_capita")),
     correlacao |-> Corr(Coluna(f, "percentual_idosos"),
                         Coluna(f, "internacoes_por_1000")),
     correl_idosos_intern |-> Corr(Coluna(f, "percentual_idosos"),
                                   Coluna(f, "internacoes_por_1000")),
     correl_pib_proced |-> Corr(Coluna(f, "pib_per_capita"),
                                Coluna(f, "procedimentos_por_1000")),
     correl_idosos_complexo |-> Corr(Coluna(f, "percentual_idosos"),
                                     Coluna(f, "procedimentos_alta_complexidade")),
     comparacao |-> [alto |-> Indicadores(alto), baixo |-> Indicadores(baixo)],
     razao_internacoes |-> Dividir(Indicadores(alto).internacoes,
                                   Indicadores(baixo).internacoes),
     razao_gastos |-> Dividir(Indicadores(alto).gasto,
                              Indicadores(baixo).gasto)]

\* The f-strings that put those values on the page.
Textos(m) ==
    [populacao_media |-> Formatar(m.populacao_media),
     percentual_idosos_medio |-> Formatar(m.percentual_idosos_medio),
     pib_medio |-> Formatar(m.pib_medio),
     correlacao |-> Formatar(m.correlacao),
     correl_idosos_intern |-> Formatar(m.correl_idosos_intern),
     correl_pib_proced |-> Formatar(m.correl_pib_proced),
     correl_idosos_complexo |-> Formatar(m.correl_idosos_complexo),
     razao_internacoes |-> Formatar(m.razao_internacoes),
     razao_gastos |-> Formatar(m.razao_gastos)]

---------------------------------------------------------------------------
(* The widgets *)

\* Slider positions tried, inside the default range (5.0, 25.0) of the
\* "% Idosos" slider and (10000.0, 40000.0) of the PIB slider.
FaixasIdosos ==
    {<<5 * Scale, 25 * Scale>>, <<5 * Scale, 10 * Scale>>,
     <<10 * Scale, 25 * Scale>>}

FaixasPib == {<<10000, 40000>>, <<10000, 10000>>}

FaixaIdososPadrao == <<5 * Scale, 25 * Scale>>

FaixaPibPadrao == <<10000, 40000>>

Min(a, b) == IF a <= b THEN a ELSE b

---------------------------------------------------------------------------
(* One run of the script, top to bottom *)

\* reg, fi, fp: the widget values of this run; padrao: whether the
\* multiselect is at its default (all regions of the dataset).
Script(padrao, reg, fi, fp) ==
    LET c == CacheData(cache, prng)
        sel == IF padrao THEN Regioes(c.valor) ELSE reg
        f0 == Filtrar(c.valor, sel, fi, fp)
        ap == AtribuirPorte(c.valor, f0)
        f == ap.df_filtrado
        la == Quantil(Coluna(f, "percentual_idosos"), 3)
        lb == Quantil(Coluna(f, "percentual_idosos"), 1)
        alto == AltoIdosos(f, la)
        baixo == BaixoIdosos(f, lb)
        m == Metricas(ap.df, f, alto, baixo)
    IN  /\ cache' = c.cache
        /\ execucoes' = Min(execucoes + c.executou, MaxExecucoes)
        /\ df' = ap.df
        /\ regioes' = sel
        /\ faixa_idosos' = fi
        /\ faixa_pib' = fp
        /\ df_filtrado' = f
        /\ limite_alto' = la
        /\ limite_baixo' = lb
        /\ alto_idosos' = alto
        /\ baixo_idosos' = baixo
        /\ metricas' = m
        /\ textos' = Textos(m)
        /\ estado' = "renderizado"
        /\ UNCHANGED prng

Init ==
    /\ \E A \in Amostras : prng \in [1..n_municipios -> A]
    /\ cache = [hit |-> FALSE, valor |-> <<>>]
    /\ execucoes = 0
    /\ estado = "inicial"
    /\ df = <<>>
    /\ regioes = {}
    /\ faixa_idosos = FaixaIdososPadrao
    /\ faixa_pib = FaixaPibPadrao
    /\ df_filtrado = <<>>
    /\ limite_alto = NaN
    /\ limite_baixo = NaN
    /\ alto_idosos = <<>>
    /\ baixo_idosos = <<>>
    /\ metricas = Metricas(<<>>, <<>>, <<>>, <<>>)
    /\ textos = Textos(Metricas(<<>>, <<>>, <<>>, <<>>))

\* A session opens the page: every widget is at its default.
Iniciar == Script(TRUE, {}, FaixaIdososPadrao, FaixaPibPadrao)

\* The user changes the region multiselect; the script is run again.
AlterarRegioes ==
    /\ estado = "renderizado"
    /\ \E sel \in SUBSET Regioes(df) :
        /\ sel # regioes
        /\ Script(FALSE, sel, faixa_idosos, faixa_pib)

\* The user moves the "% Idosos" slider; the script is run again.
AlterarFaixaIdosos ==
    /\ estado = "renderizado"
    /\ \E fi \in FaixasIdosos :
        /\ fi # faixa_idosos
        /\ Script(FALSE, regioes, fi, faixa_pib)

\* The user moves the PIB slider; the script is run again.
AlterarFaixaPib ==
    /\ estado = "renderizado"
    /\ \E fp \in FaixasPib :
        /\ fp # faixa_pib
        /\ Script(FALSE, regioes, faixa_idosos, fp)

Next == Iniciar \/ AlterarRegioes \/ AlterarFaixaIdosos \/ AlterarFaixaPib

Spec == Init /\ [][Next]_vars

---------------------------------------------------------------------------
(* The claims *)

Renderizado == estado = "renderizado"

\* A record of df_filtrado without its column porte.
SemPorte(r) == [c \in DOMAIN r \ {"porte"} |-> r[c]]

\* The predicate the sidebar states, written on one record.
Selecionado(r) ==
    /\ r.regiao \in regioes
    /\ faixa_idosos[1] <= r.percentual_idosos
    /\ r.percentual_idosos <= faixa_idosos[2]
    /\ faixa_pib[1] * Scale <= r.pib_per_capita
    /\ r.pib_per_capita <= faixa_pib[2] * Scale

\* C1: every record of the generated dataset has
\* 0 <= populacao_60_mais <= populacao_total and 0 <= percentual_idosos <= 100.
C1_FaixasDoGerador ==
    \A i \in 1..Len(df) :
        /\ 0 <= df[i].populacao_60_mais
        /\ df[i].populacao_60_mais <= df[i].populacao_total
        /\ 0 <= df[i].percentual_idosos
        /\ df[i].percentual_idosos <= 100 * Scale

\* C2: the filtered frame holds exactly the records of the dataset that are
\* in a selected region and inside both ranges (bounds included), unchanged
\* and in the order of the dataset.
C2_FiltroExato ==
    Renderizado =>
        /\ \A i \in 1..Len(df) :
              Selecionado(df[i]) <=>
                  \E j \in 1..Len(df_filtrado) :
                      df_filtrado[j].codigo_ibge = df[i].codigo_ibge
        /\ \A j \in 1..Len(df_filtrado) :
              \E i \in 1..Len(df) : SemPorte(df_filtrado[j]) = df[i]
        /\ \A j, k \in 1..Len(df_filtrado) :
              j < k => df_filtrado[j].codigo_ibge < df_filtrado[k].codigo_ibge

\* C2 witness: a run kept a record that sits on a bound of the "% Idosos"
\* range and dropped another record.
C2_Witness ==
    /\ Renderizado
    /\ Len(df_filtrado) >= 1
    /\ Len(df_filtrado) < Len(df)
    /\ \E j \in 1..Len(df_filtrado) :
          \/ df_filtrado[j].percentual_idosos = faixa_idosos[1]
          \/ df_filtrado[j].percentual_idosos = faixa_idosos[2]

C4_PorteTotalExclusivo ==
    \A j \in 1..Len(df_filtrado) :
        LET p == df_filtrado[j].populacao_total
            b == df_filtrado[j].porte
        IN  /\ b \in {"Pequeno", "Medio", "Grande", "Metropole"}
            /\ (b = "Pequeno") <=> (0 < p /\ p <= 20000)
            /\ (b = "Medio") <=> (20000 < p /\ p <= 100000)
            /\ (b = "Grande") <=> (100000 < p /\ p <= 500000)
            /\ (b = "Metropole") <=> (500000 < p)

\* C4 witness: a filtered frame holding a municipality of exactly 20000
\* inhabitants, bucketed Pequeno, and one of 50000, bucketed Medio.
C4_Witness ==
    /\ Renderizado
    /\ \E j \in 1..Len(df_filtrado) :
          /\ df_filtrado[j].populacao_total = 20000
          /\ df_filtrado[j].porte = "Pequeno"
    /\ \E j \in 1..Len(df_filtrado) :
          /\ df_filtrado[j].populacao_total = 50000
          /\ df_filtrado[j].porte = "Medio"

\* C5: no record belongs to both the top-quartile and the bottom-quartile
\* cohort, whatever the filtered frame.
C5_CoortesDisjuntas ==
    \A i \in 1..Len(alto_idosos) : \A j \in 1..Len(baixo_idosos) :
        alto_idosos[i].codigo_ibge # baixo_idosos[j].codigo_ibge

\* C6: the top/bottom ratio of an indicator is shown as undefined ("nan")
\* whenever the bottom-cohort mean is zero, and is 1 when both cohort means
\* are equal and not zero.
C6_RazaoIndefinidaOuUm ==
    Renderizado =>
        LET a == metricas.comparacao.alto
            b == metricas.comparacao.baixo
            Regra(ma, mb, razao, texto) ==
                /\ (mb.tag = "num" /\ mb.num = 0) => texto = "nan"
                /\ (/\ ma.tag = "num" /\ mb.tag = "num" /\ mb.num # 0
                    /\ ma.num * mb.den = mb.num * ma.den)
                       => (razao.tag = "num" /\ razao.num = razao.den)
        IN  /\ Regra(a.internacoes, b.internacoes,
                     metricas.razao_internacoes, textos.razao_internacoes)
            /\ Regra(a.gasto, b.gasto,
                     metricas.razao_gastos, textos.razao_gastos)

\* C7: the dataset is never changed by a run: after any run it is the frame
\* the generator built, with the generator's columns only, and so is the
\* memoized copy.
C7_FonteImutavel ==
    Renderizado =>
        /\ df = carregar_dados_completos(prng)
        /\ cache.valor = carregar_dados_completos(prng)
        /\ \A i \in 1..Len(df) : "porte" \notin DOMAIN df[i]

\* C7 witness: after a widget change (so at least two runs), a filtered
\* frame that carries the column porte.
C7_Witness ==
    /\ Renderizado
    /\ regioes # Regioes(df)
    /\ df_filtrado # <<>>
    /\ \A j \in 1..Len(df_filtrado) : "porte" \in DOMAIN df_filtrado[j]

\* C8: the generator body runs once, on the first run; every later run
\* reuses the memoized dataset and sees the dataset the first run saw.
C8_GeradorUmaVez ==
    /\ [](Renderizado => (execucoes = 1 /\ cache.hit /\ df = cache.valor))
    /\ [][Renderizado => (execucoes' = execucoes /\ df' = df /\ cache' = cache)]_vars

\* C8 witness: a run after the first (a widget is off its default) with the
\* generator body executed once.
C8_Witness ==
    /\ Renderizado
    /\ execucoes = 1
    /\ faixa_pib # FaixaPibPadrao

\* C9: filtering the filtered frame again with the same widget values
\* returns that frame: same records, same order.
C9_FiltroIdempotente ==
    Renderizado =>
        Filtrar(df_filtrado, regioes, faixa_idosos, faixa_pib) = df_filtrado

\* C9 witness: a filtered frame that kept some records and dropped others,
\* under a "% Idosos" range moved off its default.
C9_Witness ==
    /\ Renderizado
    /\ faixa_idosos # FaixaIdososPadrao
    /\ Len(df_filtrado) >= 1
    /\ Len(df_filtrado) < Len(df)

\* C10: whenever the filtered frame is not empty, the top-quartile and the
\* bottom-quartile cohort are both not empty, so every cohort mean is taken
\* over at least one record.
C10_CoortesNaoVazias ==
    df_filtrado # <<>> =>
        /\ alto_idosos # <<>>
        /\ baixo_idosos # <<>>
        /\ \A g \in {"alto", "baixo"} :
              /\ metricas.comparacao[g].internacoes.tag = "num"
              /\ metricas.comparacao[g].procedimentos.tag = "num"
              /\ metricas.comparacao[g].gasto.tag = "num"

\* C10 witness: a filtered frame with two different shares of elderly, whose
\* two cohorts are not empty and differ.
C10_Witness ==
    /\ Renderizado
    /\ Len(df_filtrado) >= 2
    /\ \E i, j \in 1..Len(df_filtrado) :
          df_filtrado[i].percentual_idosos < df_filtrado[j].percentual_idosos
    /\ alto_idosos # <<>>
    /\ baixo_idosos # <<>>
    /\ alto_idosos # baixo_idosos

=============================================================================
